---- MODULE Spec2Model ----
(***************************************************************************)
(* Model of the captive-access-pass payment backend (the store-backed      *)
(* variant with the customers / transactions / active collections): the    *)
(* Paystack webhook handler, handleSuccessfulPayment with its three store  *)
(* writes, the upsert helpers, and calculateExpiryDate.                     *)
(*                                                                         *)
(* Time values are counted in hours since the epoch (the sub-hour part of  *)
(* a Date plays no role in any computation of the program).                *)
(***************************************************************************)
EXTENDS Integers, Sequences, FiniteSets, Bags, TLC

\* ------------------------------------------------------------------ bounds

\* Number of charge.success deliveries that start a reconciliation run.
MaxRuns == 2
\* Largest value of the wall clock read by `new Date()`.
MaxClock == 1

\* ------------------------------------------------------------- Date model

\* Length of a day in the unit of time values (ECMAScript msPerDay).
HoursPerDay == 24
\* Offset of local time from UTC: the backend image sets no time zone.
LocalTZA == 0

Day(t) == t \div HoursPerDay
TimeWithinDay(t) == t % HoursPerDay

InLeapYear(y) == (y % 4 = 0 /\ y % 100 # 0) \/ y % 400 = 0

DayFromYear(y) ==
    365 * (y - 1970) + ((y - 1969) \div 4) - ((y - 1901) \div 100)
        + ((y - 1601) \div 400)

\* The year a day (d >= 0) falls in: it lies between 1970 + d/366 and 1970 + d/365.
YearFromDay(d) ==
    CHOOSE y \in (1970 + d \div 366)..(1970 + d \div 365) :
        DayFromYear(y) <= d /\ d < DayFromYear(y + 1)

\* First day within the year of month m (0-based), m = 12 being the year's end.
MonthStart(m, leap) ==
    <<0, 31, 59, 90, 120, 151, 181, 212, 243, 273, 304, 334, 365>>[m + 1]
        + (IF leap /\ m >= 2 THEN 1 ELSE 0)

DayWithinYear(d) == d - DayFromYear(YearFromDay(d))

MonthFromDay(d) ==
    CHOOSE m \in 0..11 :
        /\ MonthStart(m, InLeapYear(YearFromDay(d))) <= DayWithinYear(d)
        /\ DayWithinYear(d) < MonthStart(m + 1, InLeapYear(YearFromDay(d)))

\* Date.prototype.getDate: the day of the month, in local time.
getDate(t) ==
    DayWithinYear(Day(t + LocalTZA))
        - MonthStart(MonthFromDay(Day(t + LocalTZA)),
                     InLeapYear(YearFromDay(Day(t + LocalTZA)))) + 1

\* MakeDay for a month within 0..11 and any (possibly overflowing) date.
MakeDay(y, m, dt) == DayFromYear(y) + MonthStart(m, InLeapYear(y)) + dt - 1

\* Date.prototype.setDate: same local year, month and time of day, new date.
setDate(t, dt) ==
    MakeDay(YearFromDay(Day(t + LocalTZA)), MonthFromDay(Day(t + LocalTZA)), dt)
        * HoursPerDay + TimeWithinDay(t + LocalTZA) - LocalTZA

\* The time value of year-month-day (month 1-based) at hour h, UTC.
DateUTC(y, mo, d, h) == MakeDay(y, mo - 1, d) * HoursPerDay + h

\* --------------------------------------------------- calculateExpiryDate

\* A tier table with the mid tier's duration wrong.
TierDaysWrong(amount) ==
    IF amount = 500 THEN 1
    ELSE IF amount = 11000 THEN 31
    ELSE IF amount = 25000 THEN 90
    ELSE 1

\* A chain whose final else adds no day.
TierDaysNoDefault(amount) ==
    IF amount = 500 THEN 1
    ELSE IF amount = 11000 THEN 30
    ELSE IF amount = 25000 THEN 90
    ELSE 0

\* The `days` chosen by the if / else-if chain.
TierDays(amount) ==
    IF amount = 500 THEN 1
    ELSE IF amount = 11000 THEN 30
    ELSE IF amount = 25000 THEN 90
    ELSE 1

calculateExpiryDate(amount, paidDate) ==
    setDate(paidDate, getDate(paidDate) + TierDays(amount))

\* ------------------------------------------------- emails and validation

Lower == {"a", "b", "c", "d", "e", "f", "g", "h", "i", "j", "k", "l", "m",
          "n", "o", "p", "q", "r", "s", "t", "u", "v", "w", "x", "y", "z"}
Upper == {"A", "B", "C", "D", "E", "F", "G", "H", "I", "J", "K", "L", "M",
          "N", "O", "P", "Q", "R", "S", "T", "U", "V", "W", "X", "Y", "Z"}
Digit == {"0", "1", "2", "3", "4", "5", "6", "7", "8", "9"}
LocalChars == Lower \cup Upper \cup Digit \cup {".", "_", "%", "+", "-"}
DomainChars == Lower \cup Upper \cup Digit \cup {".", "-"}
TldChars == Lower \cup Upper

\* s[a..b] is non-empty and made of characters of cls only.
AllIn(s, a, b, cls) == a <= b /\ \A k \in a..b : s[k] \in cls

\* The characters of the email strings that occur in webhook events.
Chars(email) ==
    CASE email = "a@x.io" -> <<"a", "@", "x", ".", "i", "o">>
      [] email = "b@x.io" -> <<"b", "@", "x", ".", "i", "o">>
      [] email = "a@x" -> <<"a", "@", "x">>
      [] OTHER -> <<>>

\* The validator's pattern ^[a-zA-Z0-9._%+-]+@[a-zA-Z0-9.-]+\.[a-zA-Z]{2,}$
\* on a sequence of characters.
PatternMatches(s) ==
    \E i \in 1..Len(s) : \E j \in 1..Len(s) :
        /\ i < j
        /\ s[i] = "@"
        /\ s[j] = "."
        /\ AllIn(s, 1, i - 1, LocalChars)
        /\ AllIn(s, i + 1, j - 1, DomainChars)
        /\ AllIn(s, j + 1, Len(s), TldChars)
        /\ Len(s) - j >= 2

EmailMatches(email) == PatternMatches(Chars(email))

\* $jsonSchema of the customers collection (the two dates are always dates).
CustomerValid(doc) == EmailMatches(doc.email)
\* $jsonSchema of the transactions collection.
TransactionValid(doc) == EmailMatches(doc.email) /\ doc.amount >= 0
\* $jsonSchema of the active collection.
ActiveValid(doc) == EmailMatches(doc.email)

\* The customers index created without the unique option.
CustomersEmailNotUnique == FALSE

\* Index options of createIndexes on the `email` key of each collection.
CustomersEmailUnique == TRUE
ActiveEmailUnique == FALSE

\* ------------------------------------------------------------ the store

\* A collection is the bag of its documents.
Matching(coll, email) == {d \in BagToSet(coll) : d.email = email}

HasEmail(coll, email) == Matching(coll, email) # {}

\* The number of documents of the collection with this email.
CountEmail(coll, email) ==
    BagCardinality([d \in Matching(coll, email) |-> coll[d]])

\* An insert that replaces the stored documents of the same email.
InsertedAsUpsert(coll, doc) ==
    [d \in (BagToSet(coll) \ Matching(coll, doc.email)) \cup {doc} |->
        IF d = doc THEN 1 ELSE coll[d]]

\* collection.insertOne(doc), once accepted.
Inserted(coll, doc) == coll (+) SetToBag({doc})

\* The document updateOne and findOne act on: one that matches the filter.
FirstMatch(coll, email) == CHOOSE d \in Matching(coll, email) : TRUE

\* collection.updateOne({email}, {$set: ...}): one matching document, if
\* there is any, is replaced by `changed`.
Updated(coll, email, changed) ==
    IF HasEmail(coll, email)
    THEN (coll (-) SetToBag({FirstMatch(coll, email)})) (+) SetToBag({changed})
    ELSE coll

\* How collection.insertOne(doc) ends: "ok", or the kind of error it throws
\* (a store failure, a schema rejection, or duplicate key E11000).
InsertOutcome(coll, doc, valid, unique, fault) ==
    IF fault THEN "store"
    ELSE IF ~valid THEN "validation"
    ELSE IF unique /\ HasEmail(coll, doc.email) THEN "dup"
    ELSE "ok"

\* error.code === 11000
IsDuplicateKey(err) == err = "dup"

\* ------------------------------------------------------- webhook bodies

EmailA == "a@x.io"
EmailB == "b@x.io"
EmailBad == "a@x"

\* paid_at arrives as a date string: year, month, day, hour.
EarlyPaidAt == <<2024, 1, 31, 10>>
LatePaidAt == <<2024, 2, 28, 23>>

\* new Date(paymentData.paid_at)
ParseDate(s) == DateUTC(s[1], s[2], s[3], s[4])

Payment(ref, email, amount, paidAt) ==
    [reference |-> ref, email |-> email, amount |-> amount, paid_at |-> paidAt]

Emails == {EmailA, EmailB, EmailBad}

\* The payments of the gateway; a reference identifies one payment.
Payments ==
    { Payment("r1", EmailA, 500, EarlyPaidAt),
      Payment("r2", EmailA, 11000, LatePaidAt),
      Payment("r3", EmailB, 25000, EarlyPaidAt),
      Payment("r4", EmailBad, 999, LatePaidAt),
      Payment("r5", EmailB, 0 - 500, LatePaidAt),
      Payment("r6", EmailB, 750, LatePaidAt) }

NoPayment == Payment("", "", 0, <<1970, 1, 1, 0>>)

EventKinds ==
    {"charge.success", "charge.failed", "transfer.success", "transfer.failed",
     "invoice.create"}

\* A parsed JSON body: `event` is <<kind>>, or <<>> when the field is absent;
\* `data` is an object whose `customer` member may be missing. Every payment
\* is delivered as charge.success with its customer; the other bodies carry
\* the data of one of them.
Bodies ==
    [event : {<<"charge.success">>}, hasCustomer : {TRUE}, data : Payments]
    \cup
    [event : {<<"charge.success">>},
     hasCustomer : {FALSE},
     data : {Payment("r1", EmailA, 500, EarlyPaidAt)}]
    \cup
    [event : {<<k>> : k \in EventKinds \ {"charge.success"}} \cup {<<>>},
     hasCustomer : BOOLEAN,
     data : {Payment("r1", EmailA, 500, EarlyPaidAt)}]

\* -------------------------------------------- gateway route requests

\* The longest string sent as the `amount` of an initialize request.
MaxStr == 2

\* A JavaScript number: NaN, or the value v.
NaN == [nan |-> TRUE, v |-> 0]
Num(n) == [nan |-> FALSE, v |-> n]

\* The JSON value of the `amount` member of the request body: undefined when
\* the member is absent, a number, a boolean, or a string of characters.
NoAmount == [t |-> "undefined", v |-> 0, s |-> <<>>]
NumberAmount(n) == [t |-> "number", v |-> n, s |-> <<>>]
BooleanAmount(b) == [t |-> "boolean", v |-> IF b THEN 1 ELSE 0, s |-> <<>>]
StringAmount(s) == [t |-> "string", v |-> 0, s |-> s]

\* The characters of the amount strings: digits, a sign and a letter.
AmountChars == {"5", "0", "-", "x"}
AmountStrings == UNION {[1..k -> AmountChars] : k \in 0..MaxStr}
Amounts ==
    {NoAmount}
    \cup {NumberAmount(n) : n \in {0 - 5, 0, 5}}
    \cup {BooleanAmount(b) : b \in BOOLEAN}
    \cup {StringAmount(s) : s \in AmountStrings}

\* The `email` member of the request body: <<>> when absent, else <<string>>.
RequestEmails == {<<>>, <<"">>, <<EmailA>>}

\* !email
NoEmail(email) == email = <<>> \/ email[1] = ""

\* !amount: undefined, 0, false and the empty string are falsy.
Falsy(amount) ==
    CASE amount.t = "undefined" -> TRUE
      [] amount.t = "string" -> amount.s = <<>>
      [] OTHER -> amount.v = 0

DigitValue(c) ==
    CASE c = "0" -> 0 [] c = "1" -> 1 [] c = "2" -> 2 [] c = "3" -> 3
      [] c = "4" -> 4 [] c = "5" -> 5 [] c = "6" -> 6 [] c = "7" -> 7
      [] c = "8" -> 8 [] c = "9" -> 9

\* The number of digits of s from position i on.
RECURSIVE DigitsFrom(_, _)
DigitsFrom(s, i) ==
    IF i <= Len(s) /\ s[i] \in Digit THEN 1 + DigitsFrom(s, i + 1) ELSE 0

\* The value of the n digits of s from position i on.
RECURSIVE DecimalValue(_, _, _)
DecimalValue(s, i, n) ==
    IF n = 0 THEN 0
    ELSE DecimalValue(s, i, n - 1) * 10 + DigitValue(s[i + n - 1])

\* parseFloat(s) on strings without white space, decimal point or exponent:
\* the longest prefix that is a signed decimal literal is converted and
\* whatever follows it is ignored; NaN when there is no such prefix.
parseFloat(s) ==
    LET signed == Len(s) >= 1 /\ s[1] \in {"-", "+"}
        first == IF signed THEN 2 ELSE 1
        n == DigitsFrom(s, first)
        sign == IF signed /\ s[1] = "-" THEN 0 - 1 ELSE 1
    IN  IF n = 0 THEN NaN ELSE Num(sign * DecimalValue(s, first, n))

\* ToNumber of a value that is not a string, as isNaN and <= apply it:
\* true is 1, false is 0, undefined is NaN.
ToNumber(amount) == IF amount.t = "undefined" THEN NaN ELSE Num(amount.v)

\* typeof amount === "string" ? parseFloat(amount) : amount, as a number.
numericAmount(amount) ==
    IF amount.t = "string" THEN parseFloat(amount.s) ELSE ToNumber(amount)

\* isNaN(numericAmount) || numericAmount <= 0
NotPositive(amount) ==
    LET n == numericAmount(amount) IN n.nan \/ n.v <= 0

\* How the call axios(config) ends: a 2xx response, a response with another
\* status whose body may carry a `message` (<<>> when it does not), or no
\* response at all. `message` is the message of the error axios throws.
GatewayOutcomes ==
    [kind : {"ok"}, supplied : {<<>>}, message : {""}]
    \cup
    [kind : {"http"},
     supplied : {<<>>, <<"">>, <<"Invalid key">>},
     message : {"Request failed with status code 401"}]
    \cup
    [kind : {"network"}, supplied : {<<>>}, message : {"connect ECONNREFUSED"}]

NoReply == [kind |-> "none", supplied |-> <<>>, message |-> ""]

\* An error message that ignores the body of the gateway's response.
TransportMessageOnly(outcome) == outcome.message

\* error.response?.data?.message || error.message
ErrorMessage(outcome) ==
    IF outcome.supplied # <<>> /\ outcome.supplied[1] # ""
    THEN outcome.supplied[1]
    ELSE outcome.message

\* paystackAPI once axios has ended: response.data is returned, or one Error
\* is thrown (`thrown` holds its message).
paystackAPI(outcome) ==
    IF outcome.kind = "ok" THEN [thrown |-> <<>>]
    ELSE [thrown |-> <<ErrorMessage(outcome)>>]

\* ------------------------------------------------------------- the state

VARIABLES
    customers,     \* the customers collection
    transactions,  \* the transactions collection
    active,        \* the active collection
    runs,          \* the handleSuccessfulPayment runs, by start order
    clock,         \* the wall clock at the latest `new Date()`
    lastResp,      \* the latest webhook request and the status it was answered
    expIn,         \* arguments of a call of calculateExpiryDate
    expOut,        \* its result, NotComputed before the call
    api,           \* the latest request of the two gateway routes
    portal         \* the state of the portal page

vars ==
    <<customers, transactions, active, runs, clock, lastResp, expIn, expOut, api, portal>>

Runs == 1..MaxRuns

NotComputed == 0 - 1

IdleRun ==
    [pc |-> "idle", data |-> NoPayment, now |-> 0, outcome |-> "none",
     err |-> "none", failedAt |-> "none", ack |-> 0]

\* The page as first rendered: the four useState values, the timers set by
\* setTimeout that have not fired, and the title of the latest toast.
InitialPortal ==
    [selectedPlan |-> <<>>, email |-> "", isExistingUser |-> FALSE,
     isLoading |-> FALSE, timers |-> <<>>, toast |-> "none"]

\* No request of the gateway routes was made yet.
IdleApi ==
    [route |-> "none", pc |-> "idle", email |-> <<>>, amount |-> NoAmount,
     reference |-> "", calls |-> 0, reply |-> NoReply, thrown |-> <<>>,
     resp |-> [status |-> 0, success |-> FALSE, message |-> ""]]

Init ==
    /\ customers = EmptyBag
    /\ transactions = EmptyBag
    /\ active = EmptyBag
    /\ runs = [r \in Runs |-> IdleRun]
    /\ clock = 0
    /\ lastResp = [event |-> <<>>, hasCustomer |-> FALSE, status |-> 0]
    /\ expIn = [amount |-> 500, paidDate |-> ParseDate(EarlyPaidAt)]
    /\ expOut = NotComputed
    /\ api = IdleApi
    /\ portal = InitialPortal

\* ------------------------------------------------------ the webhook route

\* handleFailedPayment reads paymentData.customer.email: a TypeError when
\* the customer member is missing.
handleFailedPaymentThrows(body) == ~body.hasCustomer

\* Whether the switch of the route throws inside the route's try block.
\* handleSuccessfulPayment is async: it returns a promise and never throws
\* into the route.
SwitchThrows(body) ==
    IF body.event = <<"charge.failed">> THEN handleFailedPaymentThrows(body)
    ELSE FALSE

\* The status of the route's response: 200 after the switch, 500 from the
\* route's catch block.
WebhookStatus(body) == IF SwitchThrows(body) THEN 500 ELSE 200

\* The route of the variant without a store (payment_backend/index.ts). Its
\* handleSuccessfulPayment and handleFailedPayment are both synchronous and
\* both read paymentData.customer.email: a TypeError when the customer member
\* is missing, thrown inside the route's try block.
StorelessHandlerThrows(body) == ~body.hasCustomer

StorelessSwitchThrows(body) ==
    IF body.event \in {<<"charge.success">>, <<"charge.failed">>}
    THEN StorelessHandlerThrows(body)
    ELSE FALSE

\* The status of that route's response: 200 after the switch, 500 from the
\* route's catch block.
StorelessWebhookStatus(body) == IF StorelessSwitchThrows(body) THEN 500 ELSE 200

\* An error that leaves handleSuccessfulPayment as a rejected promise.
Escaped(run, kind, at) ==
    [run EXCEPT !.pc = "done", !.now = 0, !.outcome = "rejected", !.err = kind,
                !.failedAt = at]

\* A catch block around one step only: the error is logged and the run goes
\* on with the ActiveSubscription upsert.
LoggedAndContinued(run, kind, at) ==
    [run EXCEPT !.pc = "actInsert", !.now = 0, !.err = kind, !.failedAt = at]

\* The catch block of handleSuccessfulPayment: the error is logged and the
\* promise resolves; no later step of the run is executed.
Caught(run, kind, at) ==
    [run EXCEPT !.pc = "done", !.now = 0, !.outcome = "caught", !.err = kind,
                !.failedAt = at]

\* A run that begins with createTransaction, before any Customer upsert.
StartRunAtTransaction(body, now) ==
    LET run == [IdleRun EXCEPT !.data = body.data, !.outcome = "running",
                               !.ack = WebhookStatus(body)]
    IN  IF body.hasCustomer THEN [run EXCEPT !.pc = "txInsert"]
        ELSE Caught(run, "type", "start")

\* handleSuccessfulPayment up to its first await: the dates are computed,
\* paymentData.customer.email is read (a TypeError without a customer) and
\* createOrUpdateCustomer reads the clock into `now` and issues its insertOne.
StartRun(body, now) ==
    LET run == [IdleRun EXCEPT !.data = body.data, !.outcome = "running",
                               !.ack = WebhookStatus(body)]
    IN  IF body.hasCustomer THEN [run EXCEPT !.pc = "custInsert", !.now = now]
        ELSE Caught(run, "type", "start")

FreeSlot ==
    CHOOSE r \in Runs :
        runs[r].pc = "idle" /\ \A q \in 1..(r - 1) : runs[q].pc # "idle"

\* A route whose charge.failed branch revokes the customer's entitlement.
WebhookRevoking(body, elapsed) ==
    /\ clock + elapsed <= MaxClock
    /\ lastResp' = [event |-> body.event, hasCustomer |-> body.hasCustomer,
                    status |-> WebhookStatus(body)]
    /\ IF body.event = <<"charge.success">>
       THEN /\ \E r \in Runs : runs[r].pc = "idle"
            /\ runs' = [runs EXCEPT ![FreeSlot] = StartRun(body, clock + elapsed)]
            /\ clock' = IF body.hasCustomer THEN clock + elapsed ELSE clock
       ELSE /\ elapsed = 0
            /\ UNCHANGED <<runs, clock>>
    /\ active' = IF body.event = <<"charge.failed">> /\ body.hasCustomer
                 THEN [d \in BagToSet(active) \ Matching(active, body.data.email)
                          |-> active[d]]
                 ELSE active
    /\ UNCHANGED <<customers, transactions, expIn, expOut, api, portal>>

\* POST /api/webhook/paystack, `elapsed` hours of wall clock after the latest
\* reading of the clock.
Webhook(body, elapsed) ==
    /\ clock + elapsed <= MaxClock
    /\ lastResp' = [event |-> body.event, hasCustomer |-> body.hasCustomer,
                    status |-> WebhookStatus(body)]
    /\ IF body.event = <<"charge.success">>
       THEN /\ \E r \in Runs : runs[r].pc = "idle"
            /\ runs' = [runs EXCEPT ![FreeSlot] = StartRun(body, clock + elapsed)]
            /\ clock' = IF body.hasCustomer THEN clock + elapsed ELSE clock
       ELSE /\ elapsed = 0
            /\ UNCHANGED <<runs, clock>>
    /\ UNCHANGED <<customers, transactions, active, expIn, expOut, api, portal>>

\* ------------------------------------------------- createOrUpdateCustomer

\* The customer document built at the start of createOrUpdateCustomer.
CustomerDoc(run) ==
    [email |-> run.data.email, createdAt |-> run.now, updatedAt |-> run.now]

\* customersCollection.insertOne(customer) and what follows its result.
CustInsert(r, fault) ==
    /\ runs[r].pc = "custInsert"
    /\ LET run == runs[r]
           doc == CustomerDoc(run)
           res == InsertOutcome(customers, doc, CustomerValid(doc),
                                CustomersEmailUnique, fault)
       IN  /\ customers' = IF res = "ok" THEN Inserted(customers, doc) ELSE customers
           /\ runs' = [runs EXCEPT ![r] =
                        IF res = "ok"
                        THEN [run EXCEPT !.pc = "txInsert", !.now = 0]
                        ELSE IF IsDuplicateKey(res)
                        THEN [run EXCEPT !.pc = "custUpdate"]
                        ELSE Caught(run, res, "custInsert")]
    /\ UNCHANGED <<transactions, active, clock, lastResp, expIn, expOut, api, portal>>

\* A $set that also carries the creation date.
CustomerSetWrong(doc, now) == [doc EXCEPT !.updatedAt = now, !.createdAt = now]

\* The $set of the duplicate branch: only updatedAt is left in updateData.
CustomerSet(doc, now) == [doc EXCEPT !.updatedAt = now]

\* customersCollection.updateOne({email}, {$set: updateData})
CustUpdate(r, fault) ==
    /\ runs[r].pc = "custUpdate"
    /\ LET run == runs[r]
           email == run.data.email
       IN  IF fault
           THEN /\ runs' = [runs EXCEPT ![r] = Caught(run, "store", "custUpdate")]
                /\ UNCHANGED customers
           ELSE /\ customers' =
                     Updated(customers, email,
                             CustomerSet(FirstMatch(customers, email), run.now))
                /\ runs' = [runs EXCEPT ![r] = [run EXCEPT !.pc = "custFind"]]
    /\ UNCHANGED <<transactions, active, clock, lastResp, expIn, expOut, api, portal>>

\* A findOne whose promise never settles.
CustFindPending(r, fault) ==
    /\ runs[r].pc = "custFind"
    /\ UNCHANGED vars

\* customersCollection.findOne({email}) and the return of the function.
CustFind(r, fault) ==
    /\ runs[r].pc = "custFind"
    /\ runs' = [runs EXCEPT ![r] =
                 IF fault THEN Caught(runs[r], "store", "custFind")
                 ELSE [runs[r] EXCEPT !.pc = "txInsert", !.now = 0]]
    /\ UNCHANGED <<customers, transactions, active, clock, lastResp, expIn, expOut, api, portal>>

\* ------------------------------------------------------ createTransaction

\* paidDate of handleSuccessfulPayment.
PaidDate(data) == ParseDate(data.paid_at)
\* expiryDate of handleSuccessfulPayment.
ExpiryDate(data) == calculateExpiryDate(data.amount, PaidDate(data))

\* A transaction whose expiry ignores the amount paid.
TransactionDocUntiered(data) ==
    [email |-> data.email, paid_on |-> PaidDate(data),
     expires_on |-> calculateExpiryDate(0, PaidDate(data)),
     service |-> "SKYNET", amount |-> data.amount]

TransactionDoc(data) ==
    [email |-> data.email, paid_on |-> PaidDate(data),
     expires_on |-> ExpiryDate(data), service |-> "SKYNET",
     amount |-> data.amount]

\* transactionsCollection.insertOne(transaction): the email index of the
\* transactions collection is not unique, and no error is caught here.
TxInsert(r, fault) ==
    /\ runs[r].pc = "txInsert"
    /\ LET run == runs[r]
           doc == TransactionDoc(run.data)
           res == InsertOutcome(transactions, doc, TransactionValid(doc), FALSE, fault)
       IN  /\ transactions' = IF res = "ok" THEN Inserted(transactions, doc)
                              ELSE transactions
           /\ runs' = [runs EXCEPT ![r] =
                        IF res = "ok" THEN [run EXCEPT !.pc = "actInsert"]
                        ELSE Caught(run, res, "txInsert")]
    /\ UNCHANGED <<customers, active, clock, lastResp, expIn, expOut, api, portal>>

\* ----------------------------------------------- createOrUpdateActiveUser

\* An active record that expires when it was paid.
ActiveDocExpired(data) ==
    [email |-> data.email, paid_on |-> PaidDate(data),
     expires_on |-> PaidDate(data), service |-> "SKYNET"]

ActiveDoc(data) ==
    [email |-> data.email, paid_on |-> PaidDate(data),
     expires_on |-> ExpiryDate(data), service |-> "SKYNET"]

\* The $set of the duplicate branch.
ActiveSet(doc, data) ==
    [doc EXCEPT !.paid_on = PaidDate(data), !.expires_on = ExpiryDate(data),
                !.service = "SKYNET"]

Resolved(run) == [run EXCEPT !.pc = "done", !.outcome = "resolved"]

\* One awaited store call of createOrUpdateActiveUser: insertOne, then on a
\* duplicate key updateOne and findOne.
ActiveStep(r, fault) ==
    /\ runs[r].pc \in {"actInsert", "actUpdate", "actFind"}
    /\ LET run == runs[r]
           doc == ActiveDoc(run.data)
           res == InsertOutcome(active, doc, ActiveValid(doc), ActiveEmailUnique, fault)
           email == run.data.email
       IN  CASE run.pc = "actInsert" ->
                 /\ active' = IF res = "ok" THEN Inserted(active, doc) ELSE active
                 /\ runs' = [runs EXCEPT ![r] =
                              IF res = "ok" THEN Resolved(run)
                              ELSE IF IsDuplicateKey(res)
                              THEN [run EXCEPT !.pc = "actUpdate"]
                              ELSE Caught(run, res, "actInsert")]
            [] run.pc = "actUpdate" ->
                 /\ active' = IF fault THEN active
                              ELSE Updated(active, email,
                                           ActiveSet(FirstMatch(active, email),
                                                     run.data))
                 /\ runs' = [runs EXCEPT ![r] =
                              IF fault THEN Caught(run, "store", "actUpdate")
                              ELSE [run EXCEPT !.pc = "actFind"]]
            [] run.pc = "actFind" ->
                 /\ active' = active
                 /\ runs' = [runs EXCEPT ![r] =
                              IF fault THEN Caught(run, "store", "actFind")
                              ELSE Resolved(run)]
    /\ UNCHANGED <<customers, transactions, clock, lastResp, expIn, expOut, api, portal>>

\* ------------------------------------------------------ gateway routes

\* res.status(status).json({success, message, ...})
Answered(req, status, success, message) ==
    [req EXCEPT !.pc = "done",
                !.resp = [status |-> status, success |-> success,
                          message |-> message]]

\* The request is handed to paystackAPI, which calls axios once.
GatewayCalled(req) == [req EXCEPT !.pc = "awaitGateway", !.calls = @ + 1]

\* POST /api/payment/initialize up to its await. The routes keep no state
\* between requests, so requests are taken one at a time.
Initialize(email, amount) ==
    /\ api.pc # "awaitGateway"
    /\ LET req == [IdleApi EXCEPT !.route = "initialize", !.email = email,
                                  !.amount = amount]
       IN  api' = IF NoEmail(email) \/ Falsy(amount)
                  THEN Answered(req, 400, FALSE, "Email and amount are required")
                  ELSE IF NotPositive(amount)
                  THEN Answered(req, 400, FALSE,
                                "Amount must be a valid positive number")
                  ELSE GatewayCalled(req)
    /\ UNCHANGED <<customers, transactions, active, runs, clock, lastResp,
                   expIn, expOut, portal>>

\* The references of verify requests: the route only matches a non-empty
\* path segment.
References == {"r1", "r2"}

\* GET /api/payment/verify/:reference up to its await.
Verify(reference) ==
    /\ api.pc # "awaitGateway"
    /\ LET req == [IdleApi EXCEPT !.route = "verify", !.reference = reference]
       IN  api' = IF reference = ""
                  THEN Answered(req, 400, FALSE, "Payment reference is required")
                  ELSE GatewayCalled(req)
    /\ UNCHANGED <<customers, transactions, active, runs, clock, lastResp,
                   expIn, expOut, portal>>

\* A route that calls the gateway a second time when the first call failed.
GatewayResponseRetrying(outcome) ==
    /\ api.pc = "awaitGateway"
    /\ LET result == paystackAPI(outcome)
           req == [api EXCEPT !.reply = outcome, !.thrown = result.thrown]
       IN  api' = IF result.thrown = <<>>
                  THEN Answered(req, 200, TRUE, "Payment initialized successfully")
                  ELSE IF api.calls < 2
                  THEN GatewayCalled(api)
                  ELSE Answered(req, 500, FALSE, result.thrown[1])
    /\ UNCHANGED <<customers, transactions, active, runs, clock, lastResp,
                   expIn, expOut, portal>>

\* The awaited paystackAPI call ends and the route answers: res.json on a
\* result, the catch block on an error.
GatewayResponse(outcome) ==
    /\ api.pc = "awaitGateway"
    /\ LET result == paystackAPI(outcome)
           req == [api EXCEPT !.reply = outcome, !.thrown = result.thrown]
       IN  api' = IF result.thrown = <<>>
                  THEN Answered(req, 200, TRUE,
                                IF api.route = "initialize"
                                THEN "Payment initialized successfully"
                                ELSE "Payment verification successful")
                  ELSE Answered(req, 500, FALSE, result.thrown[1])
    /\ UNCHANGED <<customers, transactions, active, runs, clock, lastResp,
                   expIn, expOut, portal>>

\* -------------------------------------------------------- portal page

\* The most timers the page is followed with.
MaxTimers == 2

\* The ids of `plans`.
Plans == {"daily", "monthly", "semester"}

\* What can be typed into an email field, the empty text included.
Texts == {"", EmailA, EmailB}

\* Every state but `portal` is left alone.
PortalOnly ==
    UNCHANGED <<customers, transactions, active, runs, clock, lastResp, expIn,
                expOut, api>>

\* handlePlanSelect without the reset of isExistingUser.
PlanSelectKeepingUser(planId) ==
    /\ portal' = [portal EXCEPT !.selectedPlan = <<planId>>]
    /\ PortalOnly

\* handlePlanSelect(planId), from a plan card or its button.
PlanSelect(planId) ==
    /\ portal' = [portal EXCEPT !.selectedPlan = <<planId>>,
                                !.isExistingUser = FALSE]
    /\ PortalOnly

\* onChange of the existing-user field; it shows isExistingUser ? email : "".
TypeExisting(text) ==
    /\ text # (IF portal.isExistingUser THEN portal.email ELSE "")
    /\ portal' = [portal EXCEPT !.email = text, !.isExistingUser = TRUE,
                                !.selectedPlan = <<>>]
    /\ PortalOnly

\* The payment section is rendered: {selectedPlan && (...)}
PaymentShown == portal.selectedPlan # <<>>

\* onChange of the payment field; it shows !isExistingUser ? email : "".
TypePayment(text) ==
    /\ PaymentShown
    /\ text # (IF ~portal.isExistingUser THEN portal.email ELSE "")
    /\ portal' = [portal EXCEPT !.email = text, !.isExistingUser = FALSE]
    /\ PortalOnly

\* A login button that stays enabled while a request is pending.
LoginDisabledNotByLoading == portal.email = "" \/ ~portal.isExistingUser

\* disabled={isLoading || !email || !isExistingUser}
LoginDisabled ==
    portal.isLoading \/ portal.email = "" \/ ~portal.isExistingUser

\* disabled={isLoading || !email || isExistingUser}
PayDisabled ==
    portal.isLoading \/ portal.email = "" \/ portal.isExistingUser

\* setTimeout(callback, ...): the callback keeps the email and plan it was
\* created with.
Timer(kind) ==
    [kind |-> kind, email |-> portal.email, plan |-> portal.selectedPlan]

\* handleExistingUserLogin, by a click on the enabled login button.
ClickLogin ==
    /\ ~LoginDisabled
    /\ Len(portal.timers) < MaxTimers
    /\ portal' = IF portal.email = ""
                 THEN [portal EXCEPT !.toast = "Email required"]
                 ELSE [portal EXCEPT !.isLoading = TRUE,
                                     !.timers = Append(@, Timer("login"))]
    /\ PortalOnly

\* handlePayment, by a click on the enabled button of the payment section.
ClickPay ==
    /\ PaymentShown
    /\ ~PayDisabled
    /\ Len(portal.timers) < MaxTimers
    /\ portal' = IF portal.email = "" \/ portal.selectedPlan = <<>>
                 THEN [portal EXCEPT !.toast = "Missing information"]
                 ELSE [portal EXCEPT !.isLoading = TRUE,
                                     !.timers = Append(@, Timer("payment"))]
    /\ PortalOnly

\* The timers without the i-th.
WithoutTimer(timers, i) ==
    [k \in 1..(Len(timers) - 1) |-> IF k < i THEN timers[k] ELSE timers[k + 1]]

\* The callback of the i-th pending timer runs; hasActiveSubscription is
\* Math.random() > 0.5.
TimerFires(i, hasActiveSubscription) ==
    /\ i \in 1..Len(portal.timers)
    /\ portal' =
          [portal EXCEPT
             !.isLoading = FALSE,
             !.timers = WithoutTimer(@, i),
             !.toast = IF portal.timers[i].kind = "payment"
                       THEN "Redirecting to payment"
                       ELSE IF hasActiveSubscription THEN "Access granted!"
                       ELSE "No active subscription"]
    /\ PortalOnly

\* ------------------------------------------------------- specifications

Next ==
    \/ \E body \in Bodies, elapsed \in 0..1 : Webhook(body, elapsed)
    \/ \E r \in Runs, fault \in BOOLEAN : CustInsert(r, fault)
    \/ \E r \in Runs, fault \in BOOLEAN : CustUpdate(r, fault)
    \/ \E r \in Runs, fault \in BOOLEAN : CustFind(r, fault)
    \/ \E r \in Runs, fault \in BOOLEAN : TxInsert(r, fault)
    \/ \E r \in Runs, fault \in BOOLEAN : ActiveStep(r, fault)

\* Webhook events arrive in any interleaving with the running store calls.
Spec == Init /\ [][Next]_vars

\* No run is between two of its store calls.
Quiet == \A r \in Runs : runs[r].pc \in {"idle", "done"}

\* A webhook event that arrives when every earlier one is fully handled.
WebhookSeq(body, elapsed) == Quiet /\ Webhook(body, elapsed)

NextSeq ==
    \/ \E body \in Bodies, elapsed \in 0..1 : WebhookSeq(body, elapsed)
    \/ \E r \in Runs, fault \in BOOLEAN : CustInsert(r, fault)
    \/ \E r \in Runs, fault \in BOOLEAN : CustUpdate(r, fault)
    \/ \E r \in Runs, fault \in BOOLEAN : CustFind(r, fault)
    \/ \E r \in Runs, fault \in BOOLEAN : TxInsert(r, fault)
    \/ \E r \in Runs, fault \in BOOLEAN : ActiveStep(r, fault)

\* Webhook events are handled one after the other.
SpecSeq == Init /\ [][NextSeq]_vars

\* The bodies that report a successful payment.
PayBodies == {body \in Bodies : body.event = <<"charge.success">>}

\* A charge.success event, in any interleaving with the running store calls.
WebhookPay(body, elapsed) == body \in PayBodies /\ Webhook(body, elapsed)

NextPay ==
    \/ \E body \in PayBodies, elapsed \in 0..1 : WebhookPay(body, elapsed)
    \/ \E r \in Runs, fault \in BOOLEAN : CustInsert(r, fault)
    \/ \E r \in Runs, fault \in BOOLEAN : CustUpdate(r, fault)
    \/ \E r \in Runs, fault \in BOOLEAN : CustFind(r, fault)
    \/ \E r \in Runs, fault \in BOOLEAN : TxInsert(r, fault)
    \/ \E r \in Runs, fault \in BOOLEAN : ActiveStep(r, fault)

\* The gateway delivers charge.success events only, concurrently.
SpecPay == Init /\ [][NextPay]_vars

\* The continuation of run r after the store call it awaits.
StepOf(r, fault) ==
    \/ CustInsert(r, fault)
    \/ CustUpdate(r, fault)
    \/ CustFind(r, fault)
    \/ TxInsert(r, fault)
    \/ ActiveStep(r, fault)

\* The store call run r awaits settles, with an error or with its result.
RunStep(r) == StepOf(r, TRUE) \/ StepOf(r, FALSE)

\* The charge.success bodies that take a run through each of its ways to
\* end: all writes done, the duplicate branch, a schema rejection by the
\* customers or by the transactions collection, and a missing customer.
LiveBodies == {body \in PayBodies : body.data.reference \in {"r1", "r4", "r5"}}

\* A charge.success event; the time it arrives at plays no part.
WebhookLive(body) == body \in LiveBodies /\ Webhook(body, 0)

NextLive ==
    \/ \E body \in LiveBodies : WebhookLive(body)
    \/ \E r \in Runs, fault \in BOOLEAN : CustInsert(r, fault)
    \/ \E r \in Runs, fault \in BOOLEAN : CustUpdate(r, fault)
    \/ \E r \in Runs, fault \in BOOLEAN : CustFind(r, fault)
    \/ \E r \in Runs, fault \in BOOLEAN : TxInsert(r, fault)
    \/ \E r \in Runs, fault \in BOOLEAN : ActiveStep(r, fault)

\* Every store call settles (with a result or an error) and the event loop
\* then resumes the run that awaits it.
SpecLive == Init /\ [][NextLive]_vars /\ \A r \in Runs : WF_vars(RunStep(r))

\* The arguments calculateExpiryDate is called with.
ExpiryAmounts ==
    {0 - 500, 0, 499, 500, 501, 999, 10999, 11000, 11001, 25000, 25001}
ExpiryDates ==
    { DateUTC(2023, 2, 28, 1), DateUTC(2023, 12, 2, 7), DateUTC(2024, 1, 1, 0),
      DateUTC(2024, 1, 31, 10), DateUTC(2024, 2, 28, 23), DateUTC(2024, 2, 29, 12),
      DateUTC(2024, 12, 31, 23) }

InitExpiry ==
    /\ customers = EmptyBag
    /\ transactions = EmptyBag
    /\ active = EmptyBag
    /\ runs = [r \in Runs |-> IdleRun]
    /\ clock = 0
    /\ lastResp = [event |-> <<>>, hasCustomer |-> FALSE, status |-> 0]
    /\ expIn \in [amount : ExpiryAmounts, paidDate : ExpiryDates]
    /\ expOut = NotComputed
    /\ api = IdleApi
    /\ portal = InitialPortal

\* A call of calculateExpiryDate(amount, paidDate).
ComputeExpiry ==
    /\ expOut = NotComputed
    /\ expOut' = calculateExpiryDate(expIn.amount, expIn.paidDate)
    /\ UNCHANGED <<customers, transactions, active, runs, clock, lastResp, expIn, api, portal>>

NextExpiry == ComputeExpiry

SpecExpiry == InitExpiry /\ [][NextExpiry]_vars

NextApi ==
    \/ \E email \in RequestEmails, amount \in Amounts : Initialize(email, amount)
    \/ \E reference \in References : Verify(reference)
    \/ \E outcome \in GatewayOutcomes : GatewayResponse(outcome)

\* Requests of the two gateway routes; they share no state with the webhook.
SpecApi == Init /\ [][NextApi]_vars

NextPortal ==
    \/ \E planId \in Plans : PlanSelect(planId)
    \/ \E text \in Texts : TypeExisting(text)
    \/ \E text \in Texts : TypePayment(text)
    \/ ClickLogin
    \/ ClickPay
    \/ \E i \in 1..MaxTimers, hasActiveSubscription \in BOOLEAN :
          TimerFires(i, hasActiveSubscription)

\* The visitor's actions on the portal page and its timers.
SpecPortal == Init /\ [][NextPortal]_vars

\* A timer whose delay has passed fires.
TimerDue == \E i \in 1..MaxTimers : TimerFires(i, TRUE) \/ TimerFires(i, FALSE)

\* The page with the browser running every timer that is due.
SpecPortalLive == Init /\ [][NextPortal]_vars /\ WF_vars(TimerDue)

\* ----------------------------------------------------------- the claims

\* The store calls of the three write steps of handleSuccessfulPayment.
CustomerSteps == {"custInsert", "custUpdate", "custFind"}
WriteSteps ==
    CustomerSteps \cup {"txInsert", "actInsert", "actUpdate", "actFind"}

\* Every run other than those of rs is idle or is about another email.
OnlyRuns(rs, email) ==
    \A q \in Runs \ rs : runs[q].pc = "idle" \/ runs[q].data.email # email

\* Run r has done all three writes.
AllWritten(r) == runs[r].outcome = "resolved"

\* C1: when the same charge.success event (same reference, email, amount and
\* paid_at) has been handled twice on a store that had no record of the
\* email, the email has exactly one Transaction and exactly one
\* ActiveSubscription record.
C1_IdempotentReplay ==
    \A r1 \in Runs : \A r2 \in Runs :
        ( /\ r1 < r2
          /\ AllWritten(r1)
          /\ AllWritten(r2)
          /\ runs[r1].data = runs[r2].data
          /\ OnlyRuns({r1, r2}, runs[r1].data.email) )
        => /\ CountEmail(transactions, runs[r1].data.email) = 1
           /\ CountEmail(active, runs[r1].data.email) = 1

\* C2: when two charge.success events of one email with paid_on T1 < T2 have
\* been handled one after the other, in either order, the ActiveSubscription
\* of the email has paid_on = T2.
C2_LatestPaidOnWins ==
    \A r1 \in Runs : \A r2 \in Runs :
        ( /\ r1 # r2
          /\ AllWritten(r1)
          /\ AllWritten(r2)
          /\ runs[r1].data.email = runs[r2].data.email
          /\ PaidDate(runs[r1].data) < PaidDate(runs[r2].data)
          /\ OnlyRuns({r1, r2}, runs[r1].data.email) )
        => /\ HasEmail(active, runs[r1].data.email)
           /\ \A d \in Matching(active, runs[r1].data.email) :
                 d.paid_on = PaidDate(runs[r2].data)

\* C3: when a run for an older payment is still in flight while a run that
\* started after it, for a newer payment of the same email, has finished its
\* writes, the older run's ActiveSubscription write does not leave the email
\* with the older payment's values.
C3_NewerNotOverwritten ==
    [][\A r \in Runs : \A q \in Runs :
          ( /\ r < q
            /\ AllWritten(q)
            /\ runs[r].data.email = runs[q].data.email
            /\ PaidDate(runs[r].data) < PaidDate(runs[q].data)
            /\ runs[r].pc = "actInsert"
            /\ AllWritten(r)' )
          => \A d \in Matching(active', runs[q].data.email) :
                d.paid_on >= PaidDate(runs[q].data)]_vars

\* C4: the active collection never holds more than one record of an email.
C4_OneActivePerEmail == \A e \in Emails : CountEmail(active, e) <= 1

\* C5: every webhook body that has an `event` field and a `data` object is
\* answered with status 200.
C5_ValidEventAcknowledged == lastResp.event # <<>> => lastResp.status = 200

\* C6: a webhook body without an `event` field is answered with a non-2xx
\* status and leaves the three collections as they were.
C6_MissingEventRejected ==
    [][(lastResp'.event = <<>> /\ lastResp' # lastResp)
          => /\ lastResp'.status \notin 200..299
             /\ UNCHANGED <<customers, transactions, active>>]_vars

\* C7: a run in which one of the store calls of the three writes failed
\* ended in the catch block of handleSuccessfulPayment (its promise did not
\* reject), and the event it handled was acknowledged with 200.
C7_WriteFailureContained ==
    \A r \in Runs :
        runs[r].failedAt \in WriteSteps
            => runs[r].outcome = "caught" /\ runs[r].ack = 200

\* Two runs whose writes failed in different steps, both acknowledged.
C7_Witness ==
    \E r1 \in Runs : \E r2 \in Runs :
        /\ runs[r1].failedAt = "txInsert" /\ runs[r1].err = "store"
        /\ runs[r2].failedAt = "actInsert" /\ runs[r2].err = "store"
        /\ runs[r1].outcome = "caught" /\ runs[r2].outcome = "caught"
        /\ runs[r1].ack = 200 /\ runs[r2].ack = 200

\* The step in which createOrUpdateCustomer of run r inserts its document.
CustCreated(r) == runs[r].pc = "custInsert" /\ runs'[r].pc = "txInsert"
\* The step in which createOrUpdateCustomer of run r updates the stored one.
CustTouched(r) == runs[r].pc = "custUpdate" /\ runs'[r].pc = "custFind"

\* C8 as stated: a createOrUpdateCustomer on a new email creates exactly one
\* record with createdAt = updatedAt; one for a stored email creates no
\* record, keeps createdAt and sets updatedAt to a later value.
C8_UpdatedAtStrictlyLater ==
    [][\A r \in Runs :
          /\ CustCreated(r) =>
                /\ CountEmail(customers, runs[r].data.email) = 0
                /\ CountEmail(customers', runs[r].data.email) = 1
                /\ \A d \in Matching(customers', runs[r].data.email) :
                      d.createdAt = d.updatedAt
          /\ CustTouched(r) =>
                /\ CountEmail(customers, runs[r].data.email) = 1
                /\ CountEmail(customers', runs[r].data.email) = 1
                /\ \A d0 \in Matching(customers, runs[r].data.email) :
                      \A d \in Matching(customers', runs[r].data.email) :
                         /\ d.createdAt = d0.createdAt
                         /\ d.updatedAt > d0.updatedAt]_vars

\* C8, amended: a createOrUpdateCustomer on a new email creates exactly one
\* record with createdAt = updatedAt = the time the call read; one for a
\* stored email, made after the earlier calls returned, creates no record,
\* keeps createdAt and sets updatedAt to the time the call read at its
\* start, which is not earlier than the stored value.
C8_CustomerUpsert ==
    [][\A r \in Runs :
          /\ CustCreated(r) =>
                /\ CountEmail(customers, runs[r].data.email) = 0
                /\ CountEmail(customers', runs[r].data.email) = 1
                /\ \A d \in Matching(customers', runs[r].data.email) :
                      d.createdAt = d.updatedAt /\ d.createdAt = runs[r].now
          /\ CustTouched(r) =>
                /\ CountEmail(customers, runs[r].data.email) = 1
                /\ CountEmail(customers', runs[r].data.email) = 1
                /\ \A d0 \in Matching(customers, runs[r].data.email) :
                      \A d \in Matching(customers', runs[r].data.email) :
                         /\ d.createdAt = d0.createdAt
                         /\ d.updatedAt = runs[r].now
                         /\ d.updatedAt >= d0.updatedAt]_vars

\* A second call has just updated the record the first one created, and the
\* clock had advanced in between.
C8_Witness ==
    \E r \in Runs :
        /\ runs[r].pc = "custFind"
        /\ CountEmail(customers, runs[r].data.email) = 1
        /\ \A d \in Matching(customers, runs[r].data.email) :
              d.updatedAt = runs[r].now /\ d.createdAt < d.updatedAt

\* C9: no email has more than one Customer record, whatever the interleaving
\* of the createOrUpdateCustomer calls, and the only errors such a call lets
\* out are store failures and schema rejections, never the duplicate key.
C9_OneCustomerPerEmail ==
    /\ \A e \in Emails : CountEmail(customers, e) <= 1
    /\ \A r \in Runs :
          runs[r].failedAt \in CustomerSteps
              => runs[r].err \in {"store", "validation"}

\* Two calls for one new email raced: the run that started first found the
\* record of the run that started after it, updated it and goes on.
C9_Witness ==
    \E r1 \in Runs : \E r2 \in Runs :
        /\ r1 < r2
        /\ runs[r1].data.email = runs[r2].data.email
        /\ runs[r1].pc = "txInsert"
        /\ runs[r2].pc \in {"txInsert", "actInsert"}
        /\ CountEmail(customers, runs[r1].data.email) = 1
        /\ \A d \in Matching(customers, runs[r1].data.email) :
              d.updatedAt < d.createdAt

\* C10: calculateExpiryDate returns paid_on + 1 day for amount 500, + 30 days
\* for 11000, + 90 days for 25000 and + 1 day for any other amount.
C10_TierDuration ==
    expOut # NotComputed =>
        expOut = expIn.paidDate + HoursPerDay *
                    ( CASE expIn.amount = 500 -> 1
                        [] expIn.amount = 11000 -> 30
                        [] expIn.amount = 25000 -> 90
                        [] OTHER -> 1 )

\* The mid tier paid on 31 January of a leap year expires on 1 March.
C10_Witness ==
    /\ expIn.amount = 11000
    /\ expIn.paidDate = DateUTC(2024, 1, 31, 10)
    /\ expOut = DateUTC(2024, 3, 1, 10)

\* The webhook route has just answered an event of a kind other than
\* charge.success (the request is not a repetition of the latest one).
OtherEventHandled ==
    /\ lastResp' # lastResp
    /\ lastResp'.event # <<>>
    /\ lastResp'.event # <<"charge.success">>

\* C11: handling a webhook event of any kind other than charge.success
\* (charge.failed, transfer.success, transfer.failed or an unrecognized
\* kind) leaves the customers, transactions and active collections as they
\* were.
C11_OtherEventsLeaveStore ==
    [][OtherEventHandled => UNCHANGED <<customers, transactions, active>>]_vars

\* A charge.failed event of a customer with an entitlement was handled, and
\* the entitlement is still stored.
C11_Witness ==
    /\ lastResp.event = <<"charge.failed">>
    /\ lastResp.hasCustomer
    /\ HasEmail(customers, EmailA)
    /\ HasEmail(transactions, EmailA)
    /\ HasEmail(active, EmailA)

\* The payment's email does not match the email pattern, or its amount is
\* negative.
ViolatesSchema(data) == ~EmailMatches(data.email) \/ data.amount < 0

\* C12: no step of a run that handles a charge.success event whose email or
\* amount violates the schema changes any of the three collections: no
\* Customer is created or touched, no Transaction is inserted and no
\* ActiveSubscription is written.
C12_InvalidPaymentNoMutation ==
    [][\A r \in Runs :
          ( /\ runs[r].pc \in WriteSteps
            /\ ViolatesSchema(runs[r].data)
            /\ runs'[r] # runs[r] )
          => UNCHANGED <<customers, transactions, active>>]_vars

\* The whole string is a signed decimal literal.
IsDecimalLiteral(s) ==
    LET first == IF Len(s) >= 1 /\ s[1] \in {"-", "+"} THEN 2 ELSE 1
    IN  AllIn(s, first, Len(s), Digit)

\* The amount of the request is a number, or a string that is a number, and
\* it is greater than 0.
NumericAndPositive(amount) ==
    \/ amount.t = "number" /\ amount.v > 0
    \/ /\ amount.t = "string"
       /\ IsDecimalLiteral(amount.s)
       /\ parseFloat(amount.s).v > 0

\* C13: an initialize request reaches the gateway only when its email is
\* present and its amount is numeric and greater than 0; a request without
\* email, or whose amount is missing, not numeric, zero or negative, is
\* answered 400 and makes no gateway call.
C13_GatewayOnlyForValidInput ==
    (api.route = "initialize" /\ api.pc # "idle")
        => IF api.email # <<>> /\ NumericAndPositive(api.amount)
           THEN TRUE
           ELSE api.calls = 0 /\ api.pc = "done" /\ api.resp.status = 400

\* C14: when the gateway call of an initialize or verify request failed (a
\* response with a non-2xx status, or no response), paystackAPI threw one
\* error whose message is the message of the gateway's response body when
\* there is one (and it is not empty) and the transport's message
\* otherwise, and the route answered success:false with that message and a
\* non-2xx status.
C14_GatewayFailureSurfaced ==
    (api.pc = "done" /\ api.reply.kind \in {"http", "network"})
        => /\ api.thrown = IF api.reply.supplied \notin {<<>>, <<"">>}
                           THEN api.reply.supplied
                           ELSE <<api.reply.message>>
           /\ ~api.resp.success
           /\ api.resp.status \notin 200..299
           /\ <<api.resp.message>> = api.thrown

\* A verify request whose gateway call was refused with a message of the
\* gateway was answered success:false with that message.
C14_Witness ==
    /\ api.route = "verify"
    /\ api.pc = "done"
    /\ api.reply.kind = "http"
    /\ api.reply.supplied = <<"Invalid key">>
    /\ api.resp = [status |-> 500, success |-> FALSE, message |-> "Invalid key"]

\* A store call of run r has just failed with an error that is not turned
\* into an update.
StepFailed(r) == runs[r].failedAt = "none" /\ runs'[r].failedAt \in WriteSteps

\* C15: the error of each of the three write steps is caught on its own, so
\* that a run whose Customer upsert failed goes on to the Transaction insert,
\* and a run whose Transaction insert failed goes on to the
\* ActiveSubscription upsert.
C15_StepsCaughtIndependently ==
    [][\A r \in Runs :
          StepFailed(r) =>
             /\ runs'[r].failedAt \in CustomerSteps => runs'[r].pc = "txInsert"
             /\ runs'[r].failedAt = "txInsert" => runs'[r].pc = "actInsert"]_vars

\* C16: a store call of a write step that fails with anything but a
\* duplicate key ends the run: the error is a store failure or a schema
\* rejection and is not turned into an update, the failing call writes
\* nothing (the records written by the earlier steps stay as they are), and
\* a run that has ended executes no further step.
C16_OtherFailureIsFatal ==
    [][\A r \in Runs :
          /\ StepFailed(r) =>
                /\ runs'[r].err \in {"store", "validation"}
                /\ runs'[r].pc = "done"
                /\ UNCHANGED <<customers, transactions, active>>
          /\ runs[r].pc = "done" => runs'[r] = runs[r]]_vars

\* The Transaction insert of a run failed: its Customer is stored, and the
\* email has neither a Transaction nor an ActiveSubscription.
C16_Witness ==
    \E r \in Runs :
        /\ runs[r].pc = "done"
        /\ runs[r].failedAt = "txInsert"
        /\ runs[r].err = "store"
        /\ CountEmail(customers, runs[r].data.email) = 1
        /\ ~HasEmail(transactions, runs[r].data.email)
        /\ ~HasEmail(active, runs[r].data.email)

\* The insertOne of step `at` of run r has just ended without a store failure
\* or schema rejection, on a collection that held a record of the run's email.
InsertMetStored(r, at, coll) ==
    /\ runs[r].pc = at
    /\ runs'[r] # runs[r]
    /\ runs'[r].failedAt = "none"
    /\ HasEmail(coll, runs[r].data.email)

C18_UpdatedAtNeverDecreases ==
    [][\A r \in Runs :
          CustTouched(r) =>
             \A d0 \in Matching(customers, runs[r].data.email) :
                \A d \in Matching(customers', runs[r].data.email) :
                   d.updatedAt >= d0.updatedAt]_vars

\* C19: no step, in any interleaving, changes the email or the createdAt of
\* a stored Customer: every stored record is still there after the step
\* with both fields as they were, and its email has as many records as
\* before.
C19_EmailAndCreatedAtWriteOnce ==
    [][\A d \in BagToSet(customers) :
          /\ CountEmail(customers', d.email) = CountEmail(customers, d.email)
          /\ \E d2 \in BagToSet(customers') :
                d2.email = d.email /\ d2.createdAt = d.createdAt]_vars

\* Two calls for one email have returned, the second one hour after the
\* first: the record carries the first call's createdAt and the second
\* call's updatedAt.
C19_Witness ==
    \E r1 \in Runs : \E r2 \in Runs :
        /\ r1 < r2
        /\ runs[r1].data.email = runs[r2].data.email
        /\ runs[r1].pc \notin CustomerSteps \cup {"idle"}
        /\ runs[r2].pc = "txInsert"
        /\ \A d \in Matching(customers, runs[r1].data.email) :
              d.createdAt = 0 /\ d.updatedAt = 1
        /\ HasEmail(customers, runs[r1].data.email)

\* C20: the transactions collection is append-only: after every step each
\* Transaction record that was stored is still stored, with all its fields,
\* in at least as many copies as before.
C20_TransactionsAppendOnly ==
    [][\A d \in BagToSet(transactions) :
          /\ d \in BagToSet(transactions')
          /\ CopiesIn(d, transactions') >= CopiesIn(d, transactions)]_vars

\* Two payments of one email were handled: the Transaction of the first is
\* stored next to the Transaction of the second.
C20_Witness ==
    \E r1 \in Runs : \E r2 \in Runs :
        /\ r1 < r2
        /\ runs[r1].data.email = runs[r2].data.email
        /\ runs[r1].data.reference # runs[r2].data.reference
        /\ AllWritten(r1)
        /\ AllWritten(r2)
        /\ CopiesIn(TransactionDoc(runs[r1].data), transactions) = 1
        /\ CopiesIn(TransactionDoc(runs[r2].data), transactions) = 1

\* C21: every Transaction record and every ActiveSubscription record that
\* handleSuccessfulPayment has written has expires_on > paid_on, whatever
\* the amount of the payment.
C21_ExpiresAfterPaid ==
    \A d \in BagToSet(transactions) \cup BagToSet(active) :
        d.expires_on > d.paid_on

\* A payment of an amount that matches no tier has been written to both
\* collections and expires one day after it was paid.
C21_Witness ==
    \E r \in Runs :
        /\ AllWritten(r)
        /\ runs[r].data.amount = 750
        /\ \E d \in BagToSet(transactions) :
              /\ d.amount = 750
              /\ d.expires_on = d.paid_on + HoursPerDay
              /\ \E a \in BagToSet(active) :
                    a.email = d.email /\ a.expires_on = d.expires_on

\* C22: the writes of a run happen in the order Customer, Transaction,
\* ActiveSubscription: a run that is at its Transaction insert or beyond
\* finds its Customer stored, a run at its ActiveSubscription upsert finds
\* its Transaction stored, and in every state, after failures and under
\* concurrent events alike, every email with a Transaction has a Customer
\* and every email with an ActiveSubscription has a Transaction.
C22_WriteOrder ==
    /\ \A r \in Runs :
          /\ runs[r].pc \in {"txInsert", "actInsert", "actUpdate", "actFind"}
                => HasEmail(customers, runs[r].data.email)
          /\ runs[r].pc \in {"actInsert", "actUpdate", "actFind"}
                => HasEmail(transactions, runs[r].data.email)
    /\ \A e \in Emails :
          /\ HasEmail(transactions, e) => HasEmail(customers, e)
          /\ HasEmail(active, e) => HasEmail(transactions, e)

\* While one run was stopped by its failed ActiveSubscription upsert, a
\* concurrent run of another email is between its Customer upsert and its
\* Transaction insert: each email has the records of the finished steps only.
C22_Witness ==
    \E r1 \in Runs : \E r2 \in Runs :
        /\ runs[r1].failedAt = "actInsert"
        /\ HasEmail(transactions, runs[r1].data.email)
        /\ ~HasEmail(active, runs[r1].data.email)
        /\ runs[r2].pc = "txInsert"
        /\ runs[r2].data.email # runs[r1].data.email
        /\ HasEmail(customers, runs[r2].data.email)
        /\ ~HasEmail(transactions, runs[r2].data.email)

\* C23: for every charge.success event whose three writes all succeeded, a
\* Transaction is stored with the event's customer email, paid_on equal to
\* the event's paid_at, the event's amount and expires_on equal to
\* calculateExpiryDate(amount, paid_at), and an ActiveSubscription is stored
\* with the same email, paid_on, expires_on and service.
C23_RecordsCarryTheEvent ==
    \A r \in Runs :
        AllWritten(r) =>
            LET data == runs[r].data
                paid == ParseDate(data.paid_at)
                expires == calculateExpiryDate(data.amount, paid)
            IN  /\ [email |-> data.email, paid_on |-> paid,
                    expires_on |-> expires, service |-> "SKYNET",
                    amount |-> data.amount] \in BagToSet(transactions)
                /\ [email |-> data.email, paid_on |-> paid,
                    expires_on |-> expires, service |-> "SKYNET"]
                       \in BagToSet(active)

\* The mid-tier payment of 28 February 2024 was written: both records expire
\* on 29 March 2024.
C23_Witness ==
    \E r \in Runs :
        /\ AllWritten(r)
        /\ runs[r].data.reference = "r2"
        /\ \E d \in BagToSet(transactions) : \E a \in BagToSet(active) :
              /\ d.email = EmailA /\ a.email = EmailA
              /\ d.amount = 11000
              /\ d.paid_on = DateUTC(2024, 2, 28, 23)
              /\ a.paid_on = d.paid_on
              /\ d.expires_on = DateUTC(2024, 3, 29, 23)
              /\ a.expires_on = d.expires_on

\* The ActiveSubscription a Transaction projects to.
Projection(d) ==
    [email |-> d.email, paid_on |-> d.paid_on, expires_on |-> d.expires_on,
     service |-> d.service]

\* C24: in every reachable state every ActiveSubscription record is the
\* projection of a stored Transaction record: a Transaction with the same
\* email, paid_on, expires_on and service exists.
C24_ActiveIsProjection ==
    \A a \in BagToSet(active) :
        \E d \in BagToSet(transactions) : Projection(d) = a

\* The ledger is ahead of the projection: one email has its Transaction and
\* the ActiveSubscription projected from it, another has a Transaction whose
\* ActiveSubscription upsert failed.
C24_Witness ==
    \E d1 \in BagToSet(transactions) : \E d2 \in BagToSet(transactions) :
        /\ d1.email # d2.email
        /\ Projection(d1) \in BagToSet(active)
        /\ ~HasEmail(active, d2.email)
        /\ \E r \in Runs :
              runs[r].failedAt = "actInsert" /\ runs[r].data.email = d2.email

\* C25: an initialize or verify request causes at most one call to the
\* gateway: exactly one when the request was answered after the gateway
\* succeeded or failed, none when it was refused before.
C25_NoGatewayRetry ==
    /\ api.calls <= 1
    /\ api.pc = "awaitGateway" => api.calls = 1
    /\ api.pc = "done" =>
          api.calls = IF api.reply.kind = "none" THEN 0 ELSE 1

\* An initialize request whose only gateway call met a network failure was
\* answered with the failure.
C25_Witness ==
    /\ api.route = "initialize"
    /\ api.pc = "done"
    /\ api.reply.kind = "network"
    /\ api.calls = 1
    /\ api.resp.status = 500

\* C26: every started handleSuccessfulPayment run eventually finishes (all
\* writes done, or stopped at a failed write), provided every store call
\* settles; and the webhook request that started it was answered, once, when
\* the run started.
C26_EveryRunFinishes ==
    \A r \in Runs :
        /\ [](runs[r].pc # "idle" => runs[r].ack \in {200, 500})
        /\ (runs[r].pc # "idle") ~> (runs[r].pc = "done")

\* Both runs have finished, one with all its writes done and one stopped at
\* the failed update of its Customer; both events were answered.
C26_Witness ==
    \E r1 \in Runs : \E r2 \in Runs :
        /\ runs[r1].pc = "done" /\ AllWritten(r1)
        /\ runs[r2].pc = "done" /\ runs[r2].failedAt = "custUpdate"
        /\ runs[r1].ack = 200 /\ runs[r2].ack = 200

\* C27: after any sequence of plan selections and typing in either email
\* field, isExistingUser = true implies selectedPlan = null; so whenever the
\* payment section is shown the email is the purchase flow's (it is not the
\* existing-user flow's) and the existing-user login button is disabled.
C27_FlowsExclusive ==
    /\ portal.isExistingUser => portal.selectedPlan = <<>>
    /\ PaymentShown => ~portal.isExistingUser /\ LoginDisabled

\* A visitor whose login found no subscription has then selected a plan:
\* the payment section is shown with the email of the purchase flow.
C27_Witness ==
    /\ portal.toast = "No active subscription"
    /\ portal.selectedPlan = <<"monthly">>
    /\ portal.email = EmailA
    /\ ~portal.isExistingUser
    /\ ~PayDisabled

\* C28: at most one simulated request (login check or payment) is pending at
\* any time, both buttons being disabled while isLoading is true, which it
\* is exactly while a timer is pending; and whenever isLoading is true it
\* becomes false again, when the pending timer fires.
C28_OnePendingRequest ==
    /\ [](Len(portal.timers) <= 1)
    /\ [](portal.isLoading <=> Len(portal.timers) = 1)
    /\ [](portal.isLoading => LoginDisabled /\ PayDisabled)
    /\ portal.isLoading ~> ~portal.isLoading

\* A payment request is pending and the visitor has meanwhile typed another
\* email into the payment field: the pay button stays disabled.
C28_Witness ==
    /\ portal.isLoading
    /\ Len(portal.timers) = 1
    /\ portal.timers[1].kind = "payment"
    /\ portal.email # ""
    /\ portal.email # portal.timers[1].email
    /\ ~portal.isExistingUser
    /\ PayDisabled


\* The latest webhook request, as far as either route reads it.
LastRequest == [event |-> lastResp.event, hasCustomer |-> lastResp.hasCustomer]

\* C29: the two backend variants answer every webhook body with the same
\* status code: whatever the latest request was (each event kind, data with or
\* without its customer object), the status the store-backed route answered
\* it with is the status the store-less route computes for the same request.
C29_SameAcknowledgment ==
    lastResp.status # 0 => lastResp.status = StorelessWebhookStatus(LastRequest)

====
